---- MODULE Spec2Model ----
(***************************************************************************)
(* Snake_game (src/main.rs): the GameContext state machine (position,      *)
(* player_direction, food, state) with its public operations, and the      *)
(* frame/tick loop of game_loop that drives it from SDL events.            *)
(*                                                                         *)
(* Two specifications share the definitions of the operations:             *)
(*   SpecApi  any sequence of calls of GameContext's public methods on the *)
(*            object built by GameContext::new();                          *)
(*   Spec     game_loop: poll events, apply them, sleep, count the frame,  *)
(*            tick every 10th frame, draw, repeat until Quit or an error.  *)
(*   SpecLimit  the same calls, on a GameContext whose snake has run       *)
(*            straight to one cell from a limit of the i32 range.          *)
(* Coordinates are i32. Under Spec and SpecApi they stay within a few      *)
(* cells of the start; what `+` does at the limits of i32 depends on the   *)
(* build (overflow checks panic, otherwise the sum wraps): overflow_checks *)
(* is the build's choice, made once, and SpecLimit is where it matters.    *)
(***************************************************************************)
EXTENDS Integers, Sequences, FiniteSets

\* ------------------------------------------------------------------ bounds
\* SpecApi: the head stays within Reach cells of its first position, per axis.
Reach == 2
\* Spec: the number of loop iterations explored.
MaxIter == 20
\* Spec: the most events pending at one poll.
MaxEvents == 2
\* SpecApi: the calls remembered by name in `trace`.
MaxTrace == 5

\* ------------------------------------------------------- program constants
\* `frame_counter % 10 == 0`: the frames per tick.
FramesPerTick == 10
\* WINDOW_WEIGHT, WINDOW_HEIGHT and DOT_SIZE: the window is 40 x 30 cells.
WINDOW_WEIGHT == 800
WINDOW_HEIGHT == 600
DOT_SIZE == 20
\* i32::MAX and i32::MIN, the range of a coordinate of Point(pub i32, pub i32).
I32Max == 2147483647
I32Min == -I32Max - 1

\* ------------------------------------------------------------------- types
\* enum State
States == {"Playing", "Paused"}

\* enum MoveType
MoveTypes == {"Up", "Down", "Right", "Left"}

\* struct Point(pub i32, pub i32), as <<x, y>>
Point(x, y) == <<x, y>>

\* `a + b` on i32 overflows.
OverflowsI32(a, b) ==
    \/ b > 0 /\ a > I32Max - b
    \/ b < 0 /\ a < I32Min - b

\* `a + b` on i32 in a build without overflow checks: the sum modulo 2^32, in
\* I32Min..I32Max. (Written so that no intermediate value leaves that range.)
WrappingAddI32(a, b) ==
    IF b > 0 /\ a > I32Max - b
    THEN I32Min + ((b - (I32Max - a)) - 1)
    ELSE IF b < 0 /\ a < I32Min - b
         THEN I32Max - (((I32Min - b) - a) - 1)
         ELSE a + b

\* Point addition that keeps the left operand's y.
Add_x_only(self, rhs) == Point(WrappingAddI32(self[1], rhs[1]), self[2])

\* Point addition that wraps around the window's grid of cells.
Add_wraps_grid(self, rhs) ==
    Point((self[1] + rhs[1]) % (WINDOW_WEIGHT \div DOT_SIZE),
          (self[2] + rhs[2]) % (WINDOW_HEIGHT \div DOT_SIZE))

\* impl Add<Point> for Point: the value, where it returns one.
Add(self, rhs) ==
    Point(WrappingAddI32(self[1], rhs[1]), WrappingAddI32(self[2], rhs[2]))

\* impl Add<Point> for Point: one of its two additions overflows, which panics
\* ("attempt to add with overflow") in a build with overflow checks.
Add_overflows(self, rhs) ==
    OverflowsI32(self[1], rhs[1]) \/ OverflowsI32(self[2], rhs[2])

\* ---------------------------------------------------------- Vec operations
\* Vec::pop: drops the last element; nothing to drop from an empty Vec.
Pop(v) == IF Len(v) = 0 THEN v ELSE SubSeq(v, 1, Len(v) - 1)

\* Vec::push
Push(v, x) == Append(v, x)

\* slice::reverse
Reverse(v) == [i \in 1..Len(v) |-> v[Len(v) + 1 - i]]

\* ------------------------------------------------------------- GameContext
\* GameContext::new with the game started at once.
New_playing ==
    [ position         |-> <<Point(3, 1), Point(2, 1), Point(1, 1)>>,
      player_direction |-> "Right",
      food             |-> Point(3, 3),
      state            |-> "Playing" ]

\* GameContext::new
New ==
    [ position         |-> <<Point(3, 1), Point(2, 1), Point(1, 1)>>,
      player_direction |-> "Right",
      food             |-> Point(3, 3),
      state            |-> "Paused" ]

\* The steps with the y axis pointing up, as on paper: Up adds to y.
Delta_y_up(d) ==
    CASE d = "Up"    -> Point(0, 1)
      [] d = "Down"  -> Point(0, -1)
      [] d = "Right" -> Point(1, 0)
      [] d = "Left"  -> Point(-1, 0)

\* next_tick, the match on player_direction: the step added to the head.
Delta(d) ==
    CASE d = "Up"    -> Point(0, -1)
      [] d = "Down"  -> Point(0, 1)
      [] d = "Right" -> Point(1, 0)
      [] d = "Left"  -> Point(-1, 0)

\* next_tick: head_position = position.first().unwrap(); next_head_position.
next_head_position(c) == Add(c.position[1], Delta(c.player_direction))

\* next_tick panics in a build with overflow checks: it is not Paused and the
\* addition that gives next_head_position overflows.
next_tick_overflows(c) ==
    /\ c.state # "Paused"
    /\ Add_overflows(c.position[1], Delta(c.player_direction))

\* next_tick without the early return on Paused.
next_tick_unguarded(c) ==
    [c EXCEPT !.position =
        Reverse(Push(Reverse(Pop(c.position)), next_head_position(c)))]

\* next_tick without the second reverse: the body is left tail first.
next_tick_one_reverse(c) ==
    IF c.state = "Paused"
    THEN c
    ELSE [c EXCEPT !.position =
            Push(Reverse(Pop(c.position)), next_head_position(c))]

\* next_tick reading first() after the pop and the reverse, where it is the
\* old second segment.
next_tick_stale_head(c) ==
    IF c.state = "Paused"
    THEN c
    ELSE LET rest == Reverse(Pop(c.position))
         IN  [c EXCEPT !.position =
                Reverse(Push(rest, Add(rest[1],
                                       Delta(c.player_direction))))]

\* next_tick with the food eaten: a head that lands on the food makes the food
\* move to the cell the tail left.
next_tick_eats(c) ==
    IF c.state = "Paused"
    THEN c
    ELSE IF next_head_position(c) = c.food
         THEN [c EXCEPT !.position =
                 Reverse(Push(Reverse(Pop(c.position)), next_head_position(c))),
                        !.food = c.position[Len(c.position)]]
         ELSE [c EXCEPT !.position =
                 Reverse(Push(Reverse(Pop(c.position)), next_head_position(c)))]

\* next_tick with growth: the tail is not popped when the head was on the food.
next_tick_grows(c) ==
    IF c.state = "Paused"
    THEN c
    ELSE IF c.position[1] = c.food
         THEN [c EXCEPT !.position =
                 Reverse(Push(Reverse(c.position), next_head_position(c)))]
         ELSE [c EXCEPT !.position =
                 Reverse(Push(Reverse(Pop(c.position)), next_head_position(c)))]

\* next_tick with a game over: a head that runs into the body pauses the game.
next_tick_game_over(c) ==
    IF c.state = "Paused"
    THEN c
    ELSE IF \E i \in 1..Len(c.position) : c.position[i] = next_head_position(c)
         THEN [c EXCEPT !.state = "Paused"]
         ELSE [c EXCEPT !.position =
                 Reverse(Push(Reverse(Pop(c.position)), next_head_position(c)))]

\* next_tick with a reversal guard: a head that would land on the second
\* segment does not move.
next_tick_no_reversal(c) ==
    IF c.state = "Paused" \/ next_head_position(c) = c.position[2]
    THEN c
    ELSE [c EXCEPT !.position =
            Reverse(Push(Reverse(Pop(c.position)), next_head_position(c)))]

\* GameContext::next_tick
next_tick(c) ==
    IF c.state = "Paused"
    THEN c
    ELSE [c EXCEPT !.position =
            Reverse(Push(Reverse(Pop(c.position)), next_head_position(c)))]

\* n calls of next_tick on c.
RECURSIVE TickN(_, _)
TickN(c, n) == IF n = 0 THEN c ELSE TickN(next_tick(c), n - 1)

\* move_up that takes effect only while the game is Playing.
move_up_playing_only(c) ==
    IF c.state = "Paused" THEN c ELSE [c EXCEPT !.player_direction = "Up"]

\* GameContext::move_up
move_up(c) == [c EXCEPT !.player_direction = "Up"]

\* move_down with a reversal guard: no turn back while heading Up.
move_down_guarded(c) ==
    IF c.player_direction = "Up"
    THEN c
    ELSE [c EXCEPT !.player_direction = "Down"]

\* GameContext::move_down
move_down(c) == [c EXCEPT !.player_direction = "Down"]

\* GameContext::move_right
move_right(c) == [c EXCEPT !.player_direction = "Right"]

\* GameContext::move_left
move_left(c) == [c EXCEPT !.player_direction = "Left"]

\* toggle_pause that only ever starts the game.
toggle_pause_start_only(c) == [c EXCEPT !.state = "Playing"]

\* GameContext::toggle_pause
toggle_pause(c) ==
    [c EXCEPT !.state = IF c.state = "Playing" THEN "Paused" ELSE "Playing"]

\* ------------------------------------------------------------------- state
VARIABLES
    context,        \* the GameContext (game_loop's `context`)
    last,           \* SpecApi: the method called last ("new" before any call)
    pre,            \* SpecApi: the GameContext as it was before that call
    again,          \* SpecApi: the call before that one was the same method
    trace,          \* SpecApi: the methods called so far, in order, while they
                    \* are at most MaxTrace; <<"more">> from then on
    pc,             \* Spec: game_loop's position
    queue,          \* Spec: the events pending in the event pump, oldest first
    frame_counter,  \* Spec: game_loop's `frame_counter`
    iterations,     \* Spec: loop iterations completed (history)
    ticks,          \* Spec: calls of next_tick made by the loop (history)
    renders,        \* Spec: frames drawn and presented (history)
    quit_at,        \* Spec: what the loop held when Quit was read (history)
    polled,         \* Spec: the events that were pending when the running
                    \* iteration started to drain them; none between two
                    \* iterations (history)
    at_poll,        \* Spec: the GameContext at that time (history)
    shown,          \* Spec: the GameContext last drawn and presented, if any
    failed_at,      \* Spec: what the loop held when a render failed (history)
    unpaused_at,    \* Spec: while the game is Playing and the snake has not
                    \* moved since the Escape that unpaused it, the number of
                    \* iterations that were complete when that Escape was
                    \* read (history)
    heading,        \* Spec: the direction of the direction key read last,
                    \* Right (new()'s) before the first one (history)
    exit,           \* Spec: how the process ended once main has returned, if
                    \* it has
    run,            \* SpecApi: the Playing next_tick calls made last in a row
    run_from,       \* SpecApi: the head before the first of them
    overflow_checks,\* the build panics on integer overflow (cargo's dev
                    \* profile) or wraps (its release profile)
    panicked        \* a call has panicked: the thread unwinds, the process ends

apiVars == <<last, pre, again, trace, run, run_from>>
loopVars == <<pc, queue, frame_counter, iterations, ticks, renders, quit_at,
              polled, at_poll, shown, failed_at, unpaused_at, heading, exit>>
vars == <<context, last, pre, again, trace, run, run_from, pc, queue, frame_counter, iterations,
          ticks, renders, quit_at, polled, at_poll, shown, failed_at, unpaused_at,
          heading, exit, overflow_checks, panicked>>

\* game_loop's locals before its first iteration.
InitLoop ==
    /\ pc = "poll"
    /\ queue = <<>>
    /\ frame_counter = 0
    /\ iterations = 0
    /\ ticks = 0
    /\ renders = 0
    /\ quit_at = <<>>
    /\ polled = <<>>
    /\ at_poll = context
    /\ shown = <<>>
    /\ failed_at = <<>>
    /\ unpaused_at = <<>>
    /\ heading = "Right"
    /\ exit = <<>>

Init ==
    /\ context = New
    /\ last = "new"
    /\ pre = New
    /\ again = FALSE
    /\ trace = <<>>
    /\ run = 0
    /\ run_from = New.position[1]
    /\ InitLoop
    /\ overflow_checks \in BOOLEAN
    /\ panicked = FALSE

\* --------------------------------------------------- SpecApi: method calls
\* A snake that has run straight in direction d, its head at `head`.
Straight(head, d) ==
    [ position         |-> <<head,
                             Point(head[1] - Delta(d)[1], head[2] - Delta(d)[2]),
                             Point(head[1] - 2 * Delta(d)[1],
                                   head[2] - 2 * Delta(d)[2])>>,
      player_direction |-> d,
      food             |-> New.food,
      state            |-> "Playing" ]

\* The GameContexts SpecLimit starts from: a Playing snake that has run
\* straight from its first cells, for some 2^31 ticks, until its head is one
\* cell from a limit of i32: Right or Left along the row y = 1, Down or Up
\* along the column x = 3.
LimitContexts ==
    { Straight(Point(I32Max - 1, 1), "Right"),
      Straight(Point(I32Min + 1, 1), "Left"),
      Straight(Point(3, I32Max - 1), "Down"),
      Straight(Point(3, I32Min + 1), "Up") }

\* The GameContexts SpecGrid starts from, besides new(): the game started and
\* the snake run Right to the last column of the window, or turned Down and
\* run to its last row.
GridContexts ==
    { TickN(toggle_pause(New), WINDOW_WEIGHT \div DOT_SIZE - 4),
      TickN(move_down(toggle_pause(New)), WINDOW_HEIGHT \div DOT_SIZE - 2) }

\* The heads the exploration starts from.
Homes ==
    {New.position[1]} \cup {c.position[1] : c \in LimitContexts \cup GridContexts}

\* b is at most n cells from a, in i32 arithmetic.
Within(a, b, n) == \E k \in (0 - n)..n : WrappingAddI32(a, k) = b

\* The head is within Reach cells, on each axis, of a head the exploration
\* started from.
InReach(p) ==
    \E h \in Homes : Within(h[1], p[1], Reach) /\ Within(h[2], p[2], Reach)

\* One call of method `name`, which leaves the GameContext as `result`.
Call(name, result) ==
    /\ ~panicked
    /\ context' = result
    /\ last' = name
    /\ pre' = context
    /\ again' = (last = name)
    /\ trace' = IF trace # <<"more">> /\ Len(trace) < MaxTrace
                THEN Append(trace, name)
                ELSE <<"more">>
    /\ run' = IF name = "next_tick" /\ context.state = "Playing"
              THEN run + 1
              ELSE 0
    /\ run_from' = IF name = "next_tick" /\ context.state = "Playing"
                   THEN run_from
                   ELSE result.position[1]
    /\ UNCHANGED <<loopVars, overflow_checks, panicked>>

\* next_tick panics at the addition, before it has changed anything.
CallPanics(name) ==
    /\ ~panicked
    /\ panicked' = TRUE
    /\ last' = name
    /\ pre' = context
    /\ again' = (last = name)
    /\ trace' = IF trace # <<"more">> /\ Len(trace) < MaxTrace
                THEN Append(trace, name)
                ELSE <<"more">>
    /\ UNCHANGED <<context, run, run_from, loopVars, overflow_checks>>

CallNextTick ==
    IF overflow_checks /\ next_tick_overflows(context)
    THEN CallPanics("next_tick")
    ELSE /\ InReach(next_tick(context).position[1])
         /\ Call("next_tick", next_tick(context))

CallMoveUp == Call("move_up", move_up(context))

CallMoveDown == Call("move_down", move_down(context))

CallMoveRight == Call("move_right", move_right(context))

CallMoveLeft == Call("move_left", move_left(context))

CallTogglePause == Call("toggle_pause", toggle_pause(context))

NextApi ==
    \/ CallNextTick
    \/ CallMoveUp
    \/ CallMoveDown
    \/ CallMoveRight
    \/ CallMoveLeft
    \/ CallTogglePause

SpecApi == Init /\ [][NextApi]_vars

\* The calls made so far are many: the last was a next_tick, after others.
InitLimit ==
    /\ \E c \in LimitContexts :
          /\ context = c
          /\ pre = Straight(c.position[2], c.player_direction)
    /\ last = "next_tick"
    /\ again = TRUE
    /\ trace = <<"more">>
    /\ run = 0
    /\ run_from = context.position[1]
    /\ InitLoop
    /\ overflow_checks \in BOOLEAN
    /\ panicked = FALSE

SpecLimit == InitLimit /\ [][NextApi]_vars

\* new(), or a game that has run to an edge of the window: the calls made are
\* many, the last was a next_tick, after others.
InitGrid ==
    \/ Init
    \/ /\ \E c \in GridContexts :
             /\ context = c
             /\ pre = Straight(c.position[2], c.player_direction)
       /\ last = "next_tick"
       /\ again = TRUE
       /\ trace = <<"more">>
       /\ run = 0
       /\ run_from = context.position[1]
       /\ InitLoop
       /\ overflow_checks \in BOOLEAN
       /\ panicked = FALSE

SpecGrid == InitGrid /\ [][NextApi]_vars

\* ----------------------------------------------------- claims on SpecApi
\* trace is t once (0 or more times) followed by the calls of `tail`.
RepeatedThen(t, tail) ==
    /\ trace # <<"more">>
    /\ Len(trace) >= Len(tail)
    /\ \A i \in 1..(Len(trace) - Len(tail)) : trace[i] = t
    /\ \A i \in 1..Len(tail) : trace[Len(trace) - Len(tail) + i] = tail[i]

\* C1: a next_tick called while the state is Paused changes nothing: position,
\* player_direction, food and state are after the call what they were before
\* it. Every call being a no-op, so is any run of consecutive calls.
C1_PausedTickIsNoOp ==
    (last = "next_tick" /\ pre.state = "Paused") =>
        /\ context.position = pre.position
        /\ context.player_direction = pre.player_direction
        /\ context.food = pre.food
        /\ context.state = pre.state

\* C1 witness: two next_tick in a row while Paused, on a snake that has moved
\* and turned before.
C1_Witness ==
    /\ last = "next_tick"
    /\ again
    /\ pre.state = "Paused"
    /\ context.position # <<Point(3, 1), Point(2, 1), Point(1, 1)>>
    /\ context.player_direction = "Down"

\* C2: a next_tick called while the state is Playing keeps the length of the
\* body, puts old head + delta(direction) first, moves every other segment one
\* place towards the tail (the old tail is dropped), and leaves
\* player_direction, food and state alone.
C2_PlayingTickSlides ==
    (last = "next_tick" /\ pre.state = "Playing") =>
        /\ Len(context.position) = Len(pre.position)
        /\ context.position[1] =
              <<pre.position[1][1] + Delta(pre.player_direction)[1],
                pre.position[1][2] + Delta(pre.player_direction)[2]>>
        /\ \A i \in 2..Len(context.position) :
              context.position[i] = pre.position[i - 1]
        /\ context.player_direction = pre.player_direction
        /\ context.food = pre.food
        /\ context.state = pre.state

\* C2 witness: a Playing tick of a bent snake heading Left.
C2_Witness ==
    /\ last = "next_tick"
    /\ pre.state = "Playing"
    /\ pre.player_direction = "Left"
    /\ pre.position[1][2] # pre.position[3][2]
    /\ context.position[1][1] = pre.position[1][1] - 1

\* C3: from GameContext::new, any number of next_tick leaves the body
\* [(3,1),(2,1),(1,1)]; one toggle_pause and one next_tick after them make it
\* [(4,1),(3,1),(2,1)].
C3_FirstScenario ==
    /\ RepeatedThen("next_tick", <<>>) =>
          context.position = <<Point(3, 1), Point(2, 1), Point(1, 1)>>
    /\ RepeatedThen("next_tick", <<"toggle_pause", "next_tick">>) =>
          context.position = <<Point(4, 1), Point(3, 1), Point(2, 1)>>

\* C3 witness: new, three next_tick, toggle_pause, next_tick.
C3_Witness ==
    /\ trace = <<"next_tick", "next_tick", "next_tick", "toggle_pause",
                 "next_tick">>
    /\ context.position = <<Point(4, 1), Point(3, 1), Point(2, 1)>>

\* The calls of the second scenario have been made: the first scenario
\* (toggle_pause, next_tick from new), then move_up, then next_tick.
C4_ScenarioDone ==
    RepeatedThen("next_tick",
                 <<"toggle_pause", "next_tick", "move_up", "next_tick">>)

\* C4 as stated: from body [(4,1),(3,1),(2,1)], Right, Playing, move_up and one
\* next_tick make the body [(4,0),(3,1),(2,1)].
C4_AsStated ==
    C4_ScenarioDone =>
        context.position = <<Point(4, 0), Point(3, 1), Point(2, 1)>>

\* C4 amended: from body [(4,1),(3,1),(2,1)], Right, Playing, move_up and one
\* next_tick make the body [(4,0),(4,1),(3,1)]: the new head is above the old
\* head, the old head and the old second segment follow, the old tail is gone.
C4_SecondScenario ==
    C4_ScenarioDone =>
        /\ pre.position = <<Point(4, 1), Point(3, 1), Point(2, 1)>>
        /\ pre.player_direction = "Up"
        /\ context.position = <<Point(4, 0), Point(4, 1), Point(3, 1)>>

\* C4 witness: new, toggle_pause, next_tick, move_up, next_tick.
C4_Witness ==
    /\ trace = <<"toggle_pause", "next_tick", "move_up", "next_tick">>
    /\ context.position[1] = Point(4, 0)

\* C5: food is (3,3), the value GameContext::new gives it, in every state any
\* sequence of calls reaches, also after a Playing tick whose new head lands on
\* the food.
C5_FoodNeverChanges == context.food = Point(3, 3)

\* C5 witness: a Playing tick has just put the head on the food.
C5_Witness ==
    /\ last = "next_tick"
    /\ pre.state = "Playing"
    /\ pre.position[1] # Point(3, 3)
    /\ context.position[1] = Point(3, 3)
    /\ context.food = Point(3, 3)

\* C6: the body has exactly 3 segments in every state any sequence of calls
\* reaches, also around a tick that puts the head on the food.
C6_BodyLengthIsThree == Len(context.position) = 3

\* C6 witness: the head was on the food and a Playing tick has moved it on.
C6_Witness ==
    /\ last = "next_tick"
    /\ pre.state = "Playing"
    /\ pre.position[1] = pre.food
    /\ context.position[1] # pre.position[1]
    /\ Len(context.position) = 3

\* C7: a toggle_pause turns Playing into Paused and Paused into Playing and
\* changes nothing else; a toggle_pause right after a toggle_pause gives back
\* the GameContext as it was before the first of the two.
C7_TogglePauseFlips ==
    [][last' = "toggle_pause" =>
          /\ context'.state = (IF context.state = "Playing" THEN "Paused"
                               ELSE "Playing")
          /\ context' = [context EXCEPT !.state = context'.state]
          /\ (last = "toggle_pause" => context' = pre)]_vars

\* C7 witness: two toggle_pause in a row, Playing to Paused and back, on a
\* snake that has moved.
C7_Witness ==
    /\ last = "toggle_pause"
    /\ again
    /\ context.state = "Playing"
    /\ pre.state = "Paused"
    /\ context.position[1] # Point(3, 1)

\* The direction each move_* method sets.
C8_Sets ==
    [move_up |-> "Up", move_down |-> "Down", move_right |-> "Right",
     move_left |-> "Left"]

\* C8: move_up, move_down, move_right, move_left set player_direction to Up,
\* Down, Right, Left whatever it was (its reverse too) and whatever the state,
\* and leave position, food and state alone; the same method called again
\* changes nothing more.
C8_MoveOverwrites ==
    [][last' \in DOMAIN C8_Sets =>
          /\ context' = [context EXCEPT !.player_direction = C8_Sets[last']]
          /\ (last = last' => context' = context)]_vars

\* C8 witness: Playing and heading Up, move_down is called twice.
C8_Witness ==
    /\ Len(trace) >= 3
    /\ SubSeq(trace, Len(trace) - 2, Len(trace)) =
          <<"move_up", "move_down", "move_down">>
    /\ context.state = "Playing"
    /\ context.player_direction = "Down"
    /\ context.position[1] # Point(3, 1)

\* C11: the state is Paused after GameContext::new; no call but toggle_pause
\* changes it (the move_* methods and next_tick leave it as it was); and no
\* state is terminal: whatever was called so far, one more call can make the
\* state the other one, so both Playing and Paused stay reachable.
C11_PlayStateMachine ==
    /\ last = "new" => context.state = "Paused"
    /\ last \notin {"new", "toggle_pause"} => context.state = pre.state
    /\ context.state \in States
    /\ ENABLED (NextApi /\ context'.state # context.state)

\* C11 witness: a Playing game after a reversal into the body and a tick, its
\* state still what toggle_pause made it.
C11_Witness ==
    /\ last = "next_tick"
    /\ pre.state = "Playing"
    /\ context.state = "Playing"
    /\ context.position[1] = pre.position[2]

\* The step of each direction, as the data model states it.
C12_Steps ==
    [Up |-> <<0, -1>>, Down |-> <<0, 1>>, Right |-> <<1, 0>>, Left |-> <<-1, 0>>]

\* C12: the step next_tick adds to the head is (0,-1) for Up, (0,1) for Down,
\* (1,0) for Right, (-1,0) for Left, in the match and in what every Playing
\* tick does to the head; each step is a unit vector along one axis, the four
\* are pairwise distinct, and each is the negation of exactly one other.
C12_DirectionDeltas ==
    /\ \A d \in MoveTypes :
          /\ Delta(d) = C12_Steps[d]
          /\ {Delta(d)[1], Delta(d)[2]} \in {{0, 1}, {0, -1}}
          /\ Cardinality({e \in MoveTypes :
                            Delta(e) = <<0 - Delta(d)[1], 0 - Delta(d)[2]>>}) = 1
    /\ Cardinality({Delta(d) : d \in MoveTypes}) = 4
    /\ Delta("Up") = <<0 - Delta("Down")[1], 0 - Delta("Down")[2]>>
    /\ Delta("Left") = <<0 - Delta("Right")[1], 0 - Delta("Right")[2]>>
    /\ (last = "next_tick" /\ pre.state = "Playing") =>
          /\ context.position[1][1] - pre.position[1][1] =
                C12_Steps[pre.player_direction][1]
          /\ context.position[1][2] - pre.position[1][2] =
                C12_Steps[pre.player_direction][2]

\* C12 witness: a Playing tick heading Up has taken the head to a smaller y.
C12_Witness ==
    /\ last = "next_tick"
    /\ pre.state = "Playing"
    /\ pre.player_direction = "Up"
    /\ context.position[1][2] = pre.position[1][2] - 1
    /\ context.position[1][1] = pre.position[1][1]

\* Some cell holds two segments of body b.
C16_Overlaps(b) == \E i, j \in 1..Len(b) : i < j /\ b[i] = b[j]

\* The direction of c is the reverse of its last move: the head came from the
\* second segment by the opposite step.
C16_Reversed(c) ==
    /\ c.position[1][1] - c.position[2][1] = 0 - Delta(c.player_direction)[1]
    /\ c.position[1][2] - c.position[2][2] = 0 - Delta(c.player_direction)[2]

\* C16: nothing guards a reversal or a self-collision. A Playing tick with the
\* direction reversed puts the new head on the cell of the former second
\* segment, which gives a body with the same point twice; and a Playing tick
\* of a body with the same point twice moves it like any other, the game
\* still Playing.
C16_ReversalIsNotGuarded ==
    (last = "next_tick" /\ pre.state = "Playing") =>
        /\ C16_Reversed(pre) =>
              /\ context.position[1] = pre.position[2]
              /\ C16_Overlaps(context.position)
        /\ C16_Overlaps(pre.position) =>
              /\ context.position[1] =
                    <<pre.position[1][1] + Delta(pre.player_direction)[1],
                      pre.position[1][2] + Delta(pre.player_direction)[2]>>
              /\ context.position[2] = pre.position[1]
        /\ context.state = "Playing"

\* C16 witness: the snake had reversed into itself, and a further Playing tick
\* has moved it on to a body without a repeated point.
C16_Witness ==
    /\ last = "next_tick"
    /\ again
    /\ pre.state = "Playing"
    /\ C16_Overlaps(pre.position)
    /\ pre.position[1] = pre.position[3]
    /\ ~C16_Overlaps(context.position)
    /\ context.state = "Playing"

\* Points p and q are at Manhattan distance 1.
C18_Adjacent(p, q) ==
    LET dx == IF p[1] >= q[1] THEN p[1] - q[1] ELSE q[1] - p[1]
        dy == IF p[2] >= q[2] THEN p[2] - q[2] ELSE q[2] - p[2]
    IN  dx + dy = 1

\* C18: every two consecutive segments of the body are at Manhattan distance
\* 1, in every state any sequence of calls reaches, reversals included.
C18_BodyIsContiguous ==
    \A i \in 1..(Len(context.position) - 1) :
        C18_Adjacent(context.position[i], context.position[i + 1])

\* C18 witness: a turn and then a reversal: the head is back on the third
\* segment, one cell off the line the snake started on.
C18_Witness ==
    /\ last = "next_tick"
    /\ pre.state = "Playing"
    /\ context.position[1] = context.position[3]
    /\ context.position[1][2] # context.position[2][2]

\* ---------------------------------------------------- claims on SpecGrid
\* The head is off the window's 40 x 30 grid of cells.
C15_OffGrid(p) ==
    \/ p[1] < 0
    \/ p[2] < 0
    \/ p[1] >= WINDOW_WEIGHT \div DOT_SIZE
    \/ p[2] >= WINDOW_HEIGHT \div DOT_SIZE

\* C15: nothing wraps or clamps the movement at the 40 x 30 grid: after k
\* Playing ticks in a row the head is the head they started from plus k times
\* the step of the direction, on the grid or off it; and a Playing tick with
\* the head off the grid moves it one more step, the game still Playing.
C15_NoWrapNoClamp ==
    /\ ~panicked =>
          context.position[1] =
             <<run_from[1] + run * Delta(context.player_direction)[1],
               run_from[2] + run * Delta(context.player_direction)[2]>>
    /\ (last = "next_tick" /\ pre.state = "Playing"
          /\ C15_OffGrid(pre.position[1])) =>
          /\ context.position[1] =
                <<pre.position[1][1] + Delta(pre.player_direction)[1],
                  pre.position[1][2] + Delta(pre.player_direction)[2]>>
          /\ context.state = "Playing"

\* C15 witness: two Playing ticks Right in a row have taken the head from
\* the last column of the grid to two cells beyond it.
C15_Witness ==
    /\ run = 2
    /\ run_from = Point(WINDOW_WEIGHT \div DOT_SIZE - 1, 1)
    /\ context.position[1] = Point(WINDOW_WEIGHT \div DOT_SIZE + 1, 1)
    /\ C15_OffGrid(pre.position[1])
    /\ context.state = "Playing"

\* -------------------------------------------------- claims on SpecLimit
\* C13: next_tick, the move_* methods and toggle_pause never fail: no call
\* panics, the body has a first element for first().unwrap(), also with a
\* coordinate at a limit of the i32 range.
C13_NeverFails ==
    /\ ~panicked
    /\ context.position # <<>>

\* ------------------------------------------------------- Spec: game_loop
\* What event_pump.poll_iter() can yield: Event::Quit, a KeyDown of W, A, S, D
\* or Escape, and "Other" for everything the `_ => {}` arms take (another key,
\* a KeyDown without keycode, any other event).
Events == {"Quit", "W", "A", "S", "D", "Escape", "Other"}

\* All event sequences of length at most n.
RECURSIVE SeqsUpTo(_)
SeqsUpTo(n) ==
    IF n = 0
    THEN {<<>>}
    ELSE LET shorter == SeqsUpTo(n - 1)
         IN  shorter \cup {Append(q, e) : q \in {r \in shorter : Len(r) = n - 1},
                                          e \in Events}

\* The match on one event without the Event::Quit arm: Quit falls to `_ => {}`.
on_event_quit_ignored(c, event) ==
    CASE event = "W"      -> [context |-> move_up(c), running |-> TRUE]
      [] event = "A"      -> [context |-> move_left(c), running |-> TRUE]
      [] event = "S"      -> [context |-> move_down(c), running |-> TRUE]
      [] event = "D"      -> [context |-> move_right(c), running |-> TRUE]
      [] event = "Escape" -> [context |-> toggle_pause(c), running |-> TRUE]
      [] OTHER            -> [context |-> c, running |-> TRUE]

\* game_loop, the body of `for event in event_pump.poll_iter()`: the match on
\* one event. running = FALSE is `break 'running`.
on_event(c, event) ==
    CASE event = "Quit"   -> [context |-> c, running |-> FALSE]
      [] event = "W"      -> [context |-> move_up(c), running |-> TRUE]
      [] event = "A"      -> [context |-> move_left(c), running |-> TRUE]
      [] event = "S"      -> [context |-> move_down(c), running |-> TRUE]
      [] event = "D"      -> [context |-> move_right(c), running |-> TRUE]
      [] event = "Escape" -> [context |-> toggle_pause(c), running |-> TRUE]
      [] OTHER            -> [context |-> c, running |-> TRUE]

\* The frame step with the test made before the increment: the first frame
\* already ticks.
frame_step_test_first(fc, c) ==
    IF fc % FramesPerTick = 0
    THEN [frame_counter |-> 1, context |-> next_tick(c), ticked |-> TRUE]
    ELSE [frame_counter |-> (fc + 1) % FramesPerTick, context |-> c,
          ticked |-> FALSE]

\* A frame step that counts frames only while the game is Playing.
frame_step_playing_only(fc, c) ==
    IF c.state = "Paused"
    THEN [frame_counter |-> fc, context |-> c, ticked |-> FALSE]
    ELSE LET n == fc + 1
         IN  IF n % FramesPerTick = 0
             THEN [frame_counter |-> 0, context |-> next_tick(c),
                   ticked |-> TRUE]
             ELSE [frame_counter |-> n, context |-> c, ticked |-> FALSE]

\* game_loop: frame_counter += 1; if frame_counter % 10 == 0 { next_tick();
\* frame_counter = 0 }. ticked tells whether next_tick was called.
frame_step(fc, c) ==
    LET n == fc + 1
    IN  IF n % FramesPerTick = 0
        THEN [frame_counter |-> 0, context |-> next_tick(c), ticked |-> TRUE]
        ELSE [frame_counter |-> n, context |-> c, ticked |-> FALSE]

\* The top of `'running: loop`: the for loop starts to drain what is pending.
Poll ==
    /\ pc = "poll"
    /\ iterations < MaxIter
    /\ \E evs \in SeqsUpTo(MaxEvents) : queue' = evs
    /\ pc' = "events"
    /\ polled' = queue'
    /\ at_poll' = context
    /\ UNCHANGED <<context, frame_counter, iterations, ticks, renders, quit_at,
                   shown>>
    /\ UNCHANGED <<apiVars, overflow_checks, panicked, failed_at, exit,
                   unpaused_at, heading>>

\* One turn of a for loop that takes the newest pending event first.
HandleEvent_newest_first ==
    /\ pc = "events"
    /\ queue # <<>>
    /\ LET r == on_event(context, queue[Len(queue)])
       IN  /\ context' = r.context
           /\ pc' = IF r.running THEN "events" ELSE "done"
    /\ queue' = SubSeq(queue, 1, Len(queue) - 1)
    /\ quit_at' = IF queue[Len(queue)] = "Quit"
                  THEN <<[context |-> context, frame_counter |-> frame_counter,
                          ticks |-> ticks, renders |-> renders,
                          behind |-> SubSeq(queue, 1, Len(queue) - 1)]>>
                  ELSE quit_at
    /\ UNCHANGED <<frame_counter, iterations, ticks, renders, polled, at_poll,
                   shown>>
    /\ heading' = CASE queue[Len(queue)] = "W" -> "Up"
                     [] queue[Len(queue)] = "S" -> "Down"
                     [] queue[Len(queue)] = "A" -> "Left"
                     [] queue[Len(queue)] = "D" -> "Right"
                     [] OTHER -> heading
    /\ unpaused_at' = IF queue[Len(queue)] = "Escape"
                      THEN IF context.state = "Paused"
                           THEN <<iterations>>
                           ELSE <<>>
                      ELSE unpaused_at
    /\ UNCHANGED <<apiVars, overflow_checks, panicked, failed_at, exit>>

\* One turn of the for loop: the oldest pending event is taken and matched.
HandleEvent ==
    /\ pc = "events"
    /\ queue # <<>>
    /\ LET r == on_event(context, Head(queue))
       IN  /\ context' = r.context
           /\ pc' = IF r.running THEN "events" ELSE "done"
    /\ queue' = Tail(queue)
    /\ quit_at' = IF Head(queue) = "Quit"
                  THEN <<[context |-> context, frame_counter |-> frame_counter,
                          ticks |-> ticks, renders |-> renders,
                          behind |-> Tail(queue)]>>
                  ELSE quit_at
    /\ UNCHANGED <<frame_counter, iterations, ticks, renders, polled, at_poll,
                   shown>>
    /\ heading' = CASE Head(queue) = "W" -> "Up"
                     [] Head(queue) = "S" -> "Down"
                     [] Head(queue) = "A" -> "Left"
                     [] Head(queue) = "D" -> "Right"
                     [] OTHER -> heading
    /\ unpaused_at' = IF Head(queue) = "Escape"
                      THEN IF context.state = "Paused"
                           THEN <<iterations>>
                           ELSE <<>>
                      ELSE unpaused_at
    /\ UNCHANGED <<apiVars, overflow_checks, panicked, failed_at, exit>>

\* Nothing is pending any more: the for loop ends and the thread sleeps 1/30 s.
Sleep ==
    /\ pc = "events"
    /\ queue = <<>>
    /\ pc' = "frame"
    /\ UNCHANGED <<context, queue, frame_counter, iterations, ticks, renders,
                   quit_at, polled, at_poll, shown>>
    /\ UNCHANGED <<apiVars, overflow_checks, panicked, failed_at, exit,
                   unpaused_at, heading>>

\* The frame is counted; every 10th one ticks the game. A next_tick that
\* panics ends the thread with frame_counter counted and nothing else changed.
Frame ==
    /\ pc = "frame"
    /\ LET r == frame_step(frame_counter, context)
       IN  IF r.ticked /\ overflow_checks /\ next_tick_overflows(context)
           THEN /\ frame_counter' = frame_counter + 1
                /\ ticks' = ticks + 1
                /\ pc' = "panic"
                /\ panicked' = TRUE
                /\ UNCHANGED <<context, unpaused_at>>
           ELSE /\ frame_counter' = r.frame_counter
                /\ context' = r.context
                /\ ticks' = IF r.ticked THEN ticks + 1 ELSE ticks
                /\ pc' = "draw"
                /\ unpaused_at' = IF r.context.position # context.position
                                  THEN <<>>
                                  ELSE unpaused_at
                /\ UNCHANGED panicked
    /\ UNCHANGED <<queue, iterations, renders, quit_at, polled, at_poll, shown>>
    /\ UNCHANGED <<apiVars, overflow_checks, failed_at, exit, heading>>

\* main's `game_loop().ok();`: the Result becomes an Option that is dropped;
\* main returns (), the process ends with success and nothing is reported.
main(result) ==
    LET dropped == IF result = "Ok" THEN "Some" ELSE "None"
    IN  [returned |-> result, status |-> "success", reported |-> <<>>]

\* A draw whose failure is retried instead of returned.
Draw_retries ==
    /\ pc = "draw"
    /\ \E ok \in BOOLEAN :
          IF ok
          THEN /\ renders' = renders + 1
               /\ shown' = <<context>>
               /\ iterations' = iterations + 1
               /\ pc' = "poll"
               /\ polled' = <<>>
               /\ at_poll' = context
               /\ UNCHANGED failed_at
          ELSE /\ pc' = "draw"
               /\ failed_at' = <<[context |-> context,
                                  frame_counter |-> frame_counter,
                                  ticks |-> ticks, renders |-> renders,
                                  iterations |-> iterations, shown |-> shown]>>
               /\ UNCHANGED <<renders, shown, iterations, polled, at_poll>>
    /\ UNCHANGED <<context, queue, frame_counter, ticks, quit_at, exit,
                   unpaused_at, heading>>
    /\ UNCHANGED <<apiVars, overflow_checks, panicked>>

\* renderer.draw(&context)?: Ok presents the frame and the loop goes round;
\* Err (a fill_rect failure) returns from game_loop.
Draw ==
    /\ pc = "draw"
    /\ \E ok \in BOOLEAN :
          IF ok
          THEN /\ renders' = renders + 1
               /\ shown' = <<context>>
               /\ iterations' = iterations + 1
               /\ pc' = "poll"
               /\ polled' = <<>>
               /\ at_poll' = context
               /\ UNCHANGED failed_at
          ELSE /\ pc' = "error"
               /\ failed_at' = <<[context |-> context,
                                  frame_counter |-> frame_counter,
                                  ticks |-> ticks, renders |-> renders,
                                  iterations |-> iterations, shown |-> shown]>>
               /\ UNCHANGED <<renders, shown, iterations, polled, at_poll>>
    /\ UNCHANGED <<context, queue, frame_counter, ticks, quit_at, exit,
                   unpaused_at, heading>>
    /\ UNCHANGED <<apiVars, overflow_checks, panicked>>

\* game_loop has returned, Ok(()) after `break 'running` or the Err of draw,
\* and main ends the process.
Return ==
    /\ pc \in {"done", "error"}
    /\ exit = <<>>
    /\ exit' = <<main(IF pc = "done" THEN "Ok" ELSE "Err")>>
    /\ UNCHANGED <<context, pc, queue, frame_counter, iterations, ticks,
                   renders, quit_at, polled, at_poll, shown, failed_at,
                   unpaused_at, heading>>
    /\ UNCHANGED <<apiVars, overflow_checks, panicked>>

Next ==
    \/ Poll
    \/ HandleEvent
    \/ Sleep
    \/ Frame
    \/ Draw
    \/ Return

Spec == Init /\ [][Next]_vars

\* -------------------------------------------------------- claims on Spec
\* The frames counted so far: the iterations completed, and the running one
\* once its frame step is done.
C9_Frames == IF pc \in {"draw", "error"} THEN iterations + 1 ELSE iterations

\* C9: the loop calls next_tick on exactly every 10th iteration counted from
\* its start: once n frames are counted next_tick has been called n \div 10
\* times, frame_counter is n % 10 (0 after each iteration that ticked), and at
\* the end of every iteration frame_counter is in 0..9.
C9_TickEveryTenthFrame ==
    /\ ticks = C9_Frames \div 10
    /\ frame_counter = C9_Frames % 10
    /\ frame_counter \in 0..9

\* C9 witness: 20 iterations are complete, the second tick was in the last.
C9_Witness ==
    /\ pc = "poll"
    /\ iterations = 20
    /\ ticks = 2
    /\ frame_counter = 0
    /\ context.position[1] # Point(3, 1)

\* C10: once Quit is read the loop is over: the events behind it stay
\* unapplied in the queue, and the GameContext, frame_counter, the number of
\* next_tick calls and the number of renders stay what they were when it was
\* read.
C10_QuitEndsLoop ==
    quit_at # <<>> =>
        /\ pc = "done"
        /\ queue = quit_at[1].behind
        /\ context = quit_at[1].context
        /\ frame_counter = quit_at[1].frame_counter
        /\ ticks = quit_at[1].ticks
        /\ renders = quit_at[1].renders

\* C10 witness: Quit was read in what would have been a ticking 10th frame of
\* a Playing game, with an Escape behind it in the queue.
C10_Witness ==
    /\ quit_at # <<>>
    /\ pc = "done"
    /\ queue = <<"Escape">>
    /\ frame_counter = 9
    /\ context.state = "Playing"
    /\ renders = 9

\* What the events evs, applied oldest first, make of the GameContext c.
RECURSIVE C14_Applied(_, _)
C14_Applied(c, evs) ==
    IF evs = <<>>
    THEN c
    ELSE C14_Applied(on_event(c, Head(evs)).context, Tail(evs))

\* The direction the keys in evs leave, d when none of them is a direction key.
RECURSIVE C14_Direction(_, _)
C14_Direction(d, evs) ==
    IF evs = <<>>
    THEN d
    ELSE LET e == evs[Len(evs)]
         IN  CASE e = "W" -> "Up"
               [] e = "S" -> "Down"
               [] e = "A" -> "Left"
               [] e = "D" -> "Right"
               [] OTHER   -> C14_Direction(d, SubSeq(evs, 1, Len(evs) - 1))

\* The number of Escape keys in evs.
C14_Toggles(evs) == Cardinality({i \in 1..Len(evs) : evs[i] = "Escape"})

\* The running iteration is a 10th one.
C14_TenthFrame == (iterations + 1) % FramesPerTick = 0

\* C14: in an iteration that does not quit, first all pending events are
\* applied in queue order, then next_tick is called at most once, then the
\* frame is rendered exactly once. While events are drained the GameContext
\* is what the events taken so far, oldest first, make of the one the
\* iteration started with; the frame step sees all of them applied and calls
\* next_tick once in a 10th frame and not at all otherwise; nothing is
\* rendered before that, and the one render at the end shows the GameContext
\* after the tick. In a 10th frame the keys of the same iteration govern the
\* tick: the snake moves exactly when the Escapes received leave the game
\* Playing, and then by the step of the last direction key received.
C14_EventsThenTickThenRender ==
    /\ pc = "events" =>
          LET taken == Len(polled) - Len(queue)
          IN  /\ taken >= 0
              /\ queue = SubSeq(polled, taken + 1, Len(polled))
              /\ context = C14_Applied(at_poll, SubSeq(polled, 1, taken))
              /\ ticks = iterations \div FramesPerTick
              /\ renders = iterations
    /\ pc = "frame" =>
          /\ queue = <<>>
          /\ context = C14_Applied(at_poll, polled)
          /\ ticks = iterations \div FramesPerTick
          /\ renders = iterations
    /\ pc = "draw" =>
          LET before == C14_Applied(at_poll, polled)
              playing == (at_poll.state = "Playing")
                            = (C14_Toggles(polled) % 2 = 0)
              d == C14_Direction(at_poll.player_direction, polled)
          IN  /\ renders = iterations
              /\ IF C14_TenthFrame
                 THEN /\ ticks = iterations \div FramesPerTick + 1
                      /\ context = next_tick(before)
                      /\ (context.position # at_poll.position) = playing
                      /\ playing =>
                            context.position[1]
                                = Add(at_poll.position[1], Delta(d))
                 ELSE /\ ticks = iterations \div FramesPerTick
                      /\ context = before
    /\ (pc = "poll" /\ iterations > 0) =>
          /\ shown = <<context>>
          /\ renders = iterations

\* C14 witness: a 10th frame that started Paused received W and then Escape;
\* the tick of the same iteration has moved the snake up, the render is next.
C14_Witness ==
    /\ pc = "draw"
    /\ iterations = 9
    /\ polled = <<"W", "Escape">>
    /\ at_poll.state = "Paused"
    /\ at_poll.position[1] = Point(3, 1)
    /\ context.state = "Playing"
    /\ context.position[1] = Point(3, 0)

\* C17: a render failure ends the loop at once with an error outcome. From the
\* failure on the loop is at its error exit and the GameContext, frame_counter,
\* the number of next_tick calls, the number of renders and of iterations and
\* the frame last presented stay what they were when draw failed; no event is
\* pending or polled, and none of the loop's steps can be taken: there is no
\* retry. game_loop then returns the error to main, and once main has returned
\* the process has ended with success and has reported nothing.
C17_RenderFailureEndsLoop ==
    failed_at # <<>> =>
        /\ pc = "error"
        /\ context = failed_at[1].context
        /\ frame_counter = failed_at[1].frame_counter
        /\ ticks = failed_at[1].ticks
        /\ renders = failed_at[1].renders
        /\ iterations = failed_at[1].iterations
        /\ shown = failed_at[1].shown
        /\ queue = <<>>
        /\ ~ENABLED Poll
        /\ ~ENABLED HandleEvent
        /\ ~ENABLED Frame
        /\ ~ENABLED Draw
        /\ exit = <<>> => ENABLED Return
        /\ exit # <<>> =>
              exit[1] = [returned |-> "Err", status |-> "success",
                         reported |-> <<>>]

\* C17 witness: the render of a 10th frame failed right after the tick had
\* moved the snake, and main has returned.
C17_Witness ==
    /\ failed_at # <<>>
    /\ pc = "error"
    /\ exit # <<>>
    /\ iterations = 9
    /\ renders = 9
    /\ ticks = 1
    /\ context.position[1] = Point(4, 1)
    /\ shown = <<[context EXCEPT !.position = New.position]>>

\* C19: the frame counter does not look at the play state. After the frame
\* step of iteration n, Paused or Playing, frame_counter is n % 10 and
\* next_tick has been called n \div 10 times; in a 10th frame of a Paused game
\* the call is made and leaves the GameContext as the events left it. So
\* unpausing does not restart the count: while the snake has not moved since
\* the Escape that unpaused the game (and no Escape followed), the game is
\* Playing and the 10th frame at or after the iteration that read the Escape
\* has not had its frame step yet, which makes fewer than 10 frame steps
\* since the Escape was read.
C19_PhaseFixedFromLoopStart ==
    /\ pc = "draw" =>
          /\ frame_counter = (iterations + 1) % FramesPerTick
          /\ ticks = (iterations + 1) \div FramesPerTick
          /\ (C14_TenthFrame /\ context.state = "Paused") =>
                context = C14_Applied(at_poll, polled)
    /\ unpaused_at # <<>> =>
          LET u == unpaused_at[1]
          IN  /\ context.state = "Playing"
              /\ C9_Frames < FramesPerTick * (u \div FramesPerTick + 1)
              /\ C9_Frames - u < FramesPerTick

\* C19 witness: the Escape that unpaused the game was read in a 10th
\* iteration, and the tick of that same iteration has moved the snake.
C19_Witness ==
    /\ pc = "draw"
    /\ iterations = 9
    /\ polled = <<"Escape">>
    /\ at_poll = New
    /\ context.state = "Playing"
    /\ context.position[1] = Point(4, 1)
    /\ unpaused_at = <<>>

\* C20: the last direction key wins. Reading events never moves the body:
\* until the frame step the body is the one the iteration started with. The
\* direction held is always that of the direction key read last, whether it
\* came in the same poll as others or in an earlier iteration, and whether
\* the game was Playing or Paused when it was read; and a tick that moves the
\* snake puts the head one step in that direction from the old head.
C20_LastDirectionWins ==
    /\ context.player_direction = heading
    /\ pc \in {"events", "frame", "done"} =>
          context.position = at_poll.position
    /\ (pc = "draw" /\ context.position # at_poll.position) =>
          /\ C14_TenthFrame
          /\ context.position[1] = Add(at_poll.position[1], Delta(heading))

\* C20 witness: W was read while the game was Paused in an earlier iteration,
\* the 10th iteration read S and then Escape, and its tick, the first after
\* the unpause, has moved the snake down.
C20_Witness ==
    /\ pc = "draw"
    /\ iterations = 9
    /\ at_poll = [New EXCEPT !.player_direction = "Up"]
    /\ polled = <<"S", "Escape">>
    /\ heading = "Down"
    /\ context.position[1] = Point(3, 2)

====
